---- MODULE Spec2Model ----
(***************************************************************************)
(* Model of packages/editor/src/lib/hooks/useDomCanvasEvents.ts: the       *)
(* effect body of useDomCanvasEvents, which synthesises pinch events from  *)
(* raw pointer events and forwards wheel events to the editor.             *)
(*                                                                         *)
(* Numbers.  Pointer coordinates are drawn from Xs, a set of points of one  *)
(* axis, so that every Math.sqrt the handlers compute is exact and         *)
(* every midpoint is an integer.  Zoom values are exact rationals          *)
(* [n, d]; d = 0 stands for the IEEE results of dividing by a zero         *)
(* initDistanceBetweenFingers: [1, 0] is Infinity and [0, 0] is NaN.       *)
(* The modifier-key flags the handlers copy from the DOM event into each   *)
(* dispatched event are not modelled.                                      *)
(***************************************************************************)
EXTENDS Integers, Sequences, FiniteSets, TLC

VARIABLES
    mounted,                     \* the effect is live: listeners are attached
    lag,                         \* history: DOM events handled since a callback is pending
    activePointers,              \* Map<number, PointerEvent>, in insertion order
    pinchState,                  \* 'not sure' | 'zooming' | 'panning'
    initDistanceBetweenFingers,
    initZoom,
    currDistanceBetweenFingers,
    initPointBetweenFingers,
    prevPointBetweenFingers,
    timers,                      \* callbacks handed to editor.timers.requestAnimationFrame
    out,                         \* the events the last step handed to editor.dispatch
    prevented,                   \* the last step called preventDefault/stopEventPropagation
    last,                        \* history: the input the last step handled
    zoomed,                      \* history: this session's mode has been 'zooming'
    scen,                        \* history: progress of a start-start-move*-end run
    begun,                       \* history: zoom level and finger distance at the last pinch_start,
                                 \*          midpoint at it or at the last two-pointer move
    stale                        \* history: a pinch_start was dispatched with a callback pending

vars == << mounted, lag, activePointers, pinchState, initDistanceBetweenFingers, initZoom,
           currDistanceBetweenFingers, initPointBetweenFingers, prevPointBetweenFingers,
           timers, out, prevented, last, zoomed, scen, begun, stale >>

session == << pinchState, initDistanceBetweenFingers, initZoom,
              currDistanceBetweenFingers, initPointBetweenFingers,
              prevPointBetweenFingers >>

-----------------------------------------------------------------------------
(* Bounds and input sets *)

MaxLag == 1                      \* DOM events handled before a requested frame runs

PointerIds == {1, 2, 3}
Xs == {0, 24, 100, 108, 132, 188}
Pos(a) == [x |-> a, y |-> 0]
\* where each pointer is put down and moved to.  Spec: pointers 1 and 2 are the two
\* fingers of the pinches, placed so that the finger distance changes by exactly 24
\* and 64 and the midpoint moves by exactly 16 (and by more and by less).
Fingers == {1, 2}
XsOf(id) == CASE id = 1 -> {0, 24}
              [] OTHER -> {100, 108, 132, 188}
\* Spec3: three pointers are put down, at fewer places
Xs3Of(id) == CASE id = 1 -> {0}
               [] id = 2 -> {100, 132}
               [] OTHER -> {100}
\* SpecZoom: the fingers start 100 apart and spread to 150, at zoom level 1 or 2
ZoomXsOf(id) == CASE id = 1 -> {0}
                  [] OTHER -> {100, 150}
ZoomStartLevels == {1, 2}
WheelPoints == {[x |-> 24, y |-> 0]}
ZoomWheelPoints == {[x |-> 24, y |-> 0], [x |-> 100, y |-> 8]}   \* SpecZoom
ZoomLevels == {2}               \* values editor.getZoomLevel() returns
ZoomSpeeds == {1, 2}             \* values editor.getCameraOptions().zoomSpeed returns
WheelDeltas == {[x |-> 0, y |-> 0], [x |-> 0, y |-> 3], [x |-> 5, y |-> 0]}
WheelEnvs == {"unfocused", "noEditing", "noShape", "cannotScroll", "noBounds",
              "outside", "inside"}

-----------------------------------------------------------------------------
(* Arithmetic *)

Abs(n) == IF n < 0 THEN -n ELSE n

RECURSIVE GCD(_, _)
GCD(a, b) == IF b = 0 THEN a ELSE GCD(b, a % b)

Rat(n, d) ==
    IF d = 0 THEN [n |-> IF n = 0 THEN 0 ELSE 1, d |-> 0]
    ELSE IF n = 0 THEN [n |-> 0, d |-> 1]
    ELSE [n |-> n \div GCD(n, d), d |-> d \div GCD(n, d)]

RatInt(k) == [n |-> k, d |-> 1]

RatMul(p, q) == Rat(p.n * q.n, p.d * q.d)

RECURSIVE RatPow(_, _)
RatPow(p, e) == IF e = 0 THEN RatInt(1) ELSE RatMul(p, RatPow(p, e - 1))

MaxCoord == CHOOSE m \in Xs : \A a \in Xs : a <= m

\* Math.sqrt, on the perfect squares the chosen places produce: the r with r * r = n
RECURSIVE Root(_, _, _)
Root(n, lo, hi) ==
    IF lo >= hi THEN lo
    ELSE LET mid == (lo + hi + 1) \div 2
         IN  IF mid * mid <= n THEN Root(n, mid, hi) ELSE Root(n, lo, mid - 1)

Sqrt(n) == Root(n, 0, 2 * MaxCoord)

VecDist(a, b) == Sqrt((a.x - b.x) * (a.x - b.x) + (a.y - b.y) * (a.y - b.y))

getPointerDistance(p1, p2) ==
    LET dx == p1.x - p2.x
        dy == p1.y - p2.y
    IN  Sqrt(dx * dx + dy * dy)

getPointerCenter(p1, p2) ==
    [x |-> (p1.x + p2.x) \div 2, y |-> (p1.y + p2.y) \div 2]

\* mutant: the exponent of lines 129 and 168 is missing
ZoomLinear(zoom0, curr, init, zoomSpeed) == RatMul(RatInt(zoom0), Rat(curr, init))

\* lines 128-129 and 167-168: initZoom * (curr / init) ** zoomSpeed
Zoom(zoom0, curr, init, zoomSpeed) ==
    RatMul(RatInt(zoom0), RatPow(Rat(curr, init), zoomSpeed))

-----------------------------------------------------------------------------
(* The Map of active pointers *)

Has(m, id) == \E i \in 1..Len(m) : m[i].id = id

MapSet(m, id, pos) ==
    IF Has(m, id)
    THEN [i \in 1..Len(m) |-> IF m[i].id = id THEN [id |-> id, x |-> pos.x, y |-> pos.y]
                                              ELSE m[i]]
    ELSE Append(m, [id |-> id, x |-> pos.x, y |-> pos.y])

MapDelete(m, id) == SelectSeq(m, LAMBDA p : p.id # id)

-----------------------------------------------------------------------------
(* Dispatched events *)

PinchEvent(name, x, y, z, dx, dy) ==
    [name |-> name, x |-> x, y |-> y, z |-> z, dx |-> dx, dy |-> dy]

WheelEvent(delta, point) == [name |-> "wheel", delta |-> delta, point |-> point]

Count(s, name) == Cardinality({i \in 1..Len(s) : s[i].name = name})

\* history: the event a step handled and, for a wheel event, where onWheel returned
\* and the mode it found
Input(op, id, path, from) == [op |-> op, id |-> id, path |-> path, from |-> from]

-----------------------------------------------------------------------------
(* updatePinchState, lines 54-76: the mode after one classification step *)

\* mutants of updatePinchState: without the early return of line 55, and with the
\* comparison of line 62 made inclusive
UpdatePinchStateNoLatch(state, curr, init, initPoint, prevPoint) ==
    LET touchDistance == Abs(curr - init)
        originDistance == VecDist(initPoint, prevPoint)
    IN  IF state = "panning"
        THEN (IF touchDistance > 64 THEN "zooming" ELSE state)
        ELSE IF touchDistance > 24 THEN "zooming"
        ELSE IF originDistance > 16 THEN "panning"
        ELSE "not sure"

UpdatePinchStateInclusive(state, curr, init, initPoint, prevPoint) ==
    IF state = "zooming" THEN state
    ELSE LET touchDistance == Abs(curr - init)
             originDistance == VecDist(initPoint, prevPoint)
         IN  CASE state = "not sure" ->
                      IF touchDistance >= 24 THEN "zooming"
                      ELSE IF originDistance > 16 THEN "panning"
                      ELSE state
               [] state = "panning" ->
                      IF touchDistance > 64 THEN "zooming" ELSE state

\* mutant: 'panning' is given up when the midpoint is back within 16 of its start
UpdatePinchStateFallback(state, curr, init, initPoint, prevPoint) ==
    IF state = "zooming" THEN state
    ELSE LET touchDistance == Abs(curr - init)
             originDistance == VecDist(initPoint, prevPoint)
         IN  IF touchDistance > (IF state = "panning" THEN 64 ELSE 24) THEN "zooming"
             ELSE IF originDistance > 16 THEN "panning"
             ELSE "not sure"

UpdatePinchState(state, curr, init, initPoint, prevPoint) ==
    IF state = "zooming" THEN state
    ELSE LET touchDistance == Abs(curr - init)
             originDistance == VecDist(initPoint, prevPoint)
         IN  CASE state = "not sure" ->
                      IF touchDistance > 24 THEN "zooming"
                      ELSE IF originDistance > 16 THEN "panning"
                      ELSE state
               [] state = "panning" ->
                      IF touchDistance > 64 THEN "zooming" ELSE state

\* addEventListener, lines 233-237: a listener runs while the effect is live; a
\* requested animation frame runs before more than MaxLag further events are handled
Delivered == mounted /\ (timers # << >> => lag < MaxLag)

Lag(t) == IF t = << >> THEN 0 ELSE lag + 1

\* line 82: the pointerdown that leaves two pointers in the map starts a session
StartsPinch(m) == Len(m) = 2

\* mutant: the guard of line 110 is missing
MoveHandledAlways(m, id) == TRUE

\* line 110: a pointermove is handled only for a pointer in the map
MoveHandled(m, id) == Has(m, id)

\* mutant: the pinch is recomputed from the first two pointers of two or more
MovePinchesFromTwo(m) == Len(m) >= 2

\* line 113: a handled pointermove recomputes the pinch when two pointers are in the map
MovePinches(m) == Len(m) = 2

\* mutants of the switch of lines 126-160: the 'panning' case computes the zoom as
\* the 'zooming' case does, and a case for 'not sure' dispatches as 'panning' does
PinchUpdateLiveZoom(state, center, zoom0, curr, init, zoomSpeed, dx, dy) ==
    IF state \in {"zooming", "panning"}
    THEN << PinchEvent("pinch", center.x, center.y,
                       Zoom(zoom0, curr, init, zoomSpeed), dx, dy) >>
    ELSE << >>

PinchUpdateAlways(state, center, zoom0, curr, init, zoomSpeed, dx, dy) ==
    IF state = "zooming"
    THEN << PinchEvent("pinch", center.x, center.y,
                       Zoom(zoom0, curr, init, zoomSpeed), dx, dy) >>
    ELSE << PinchEvent("pinch", center.x, center.y, RatInt(zoom0), dx, dy) >>

\* lines 126-160: what a handled pointermove dispatches, by the mode after
\* updatePinchState
PinchUpdate(state, center, zoom0, curr, init, zoomSpeed, dx, dy) ==
    CASE state = "zooming" ->
             << PinchEvent("pinch", center.x, center.y,
                           Zoom(zoom0, curr, init, zoomSpeed), dx, dy) >>
      [] state = "panning" ->
             << PinchEvent("pinch", center.x, center.y, RatInt(zoom0), dx, dy) >>
      [] OTHER -> << >>

\* mutant: only lifting the first finger ends the pinch
EndsPinchFirstOnly(m, id) == Len(m) = 2 /\ m[1].id = id

\* line 166: a pointerup or pointercancel ends the pinch when two pointers are in the map
EndsPinch(m, id) == Len(m) = 2

\* lines 172-185: the callback onPointerUp hands to requestAnimationFrame; it closes
\* over finalZoom.  atRelease is history: prevPointBetweenFingers when it was scheduled.
PinchEndCallback(finalZoom, atRelease) == [finalZoom |-> finalZoom, atRelease |-> atRelease]

\* mutant: the callback is never run
requestAnimationFrameLost(t, cb) == t

\* line 172: editor.timers.requestAnimationFrame(cb)
requestAnimationFrame(t, cb) == Append(t, cb)

\* mutant: line 215 drops a delta that is zero on either axis
WheelDroppedEitherAxis(delta) == delta.x = 0 \/ delta.y = 0

\* line 215: a wheel event whose normalized delta is zero on both axes is dropped
WheelDropped(delta) == delta.x = 0 /\ delta.y = 0

\* mutant: the test of line 193 is missing
WheelProcessedUnfocused(env) == TRUE

\* line 193: a wheel event is processed only while the editor instance is focused
WheelProcessed(env) == env # "unfocused"

\* mutant: line 195 is missing
WheelKeeps(state) == state

\* line 195: a processed wheel event resets the mode
WheelResets(state) == "not sure"

\* lines 173-184: what the callback dispatches when it runs
RunCallback(cb, prevPoint) ==
    PinchEvent("pinch_end", prevPoint.x, prevPoint.y, cb.finalZoom, prevPoint.x, prevPoint.y)

\* mutant: the test of line 205 is missing
WheelExemptAnyScrollable(env) == env \in {"inside", "outside", "noBounds"}

\* lines 198-210: the wheel event is left to a scrollable shape that is being edited
\* and whose page bounds contain the current page point
WheelExempt(env) == env = "inside"

\* lines 239-245: what the effect's cleanup leaves of the pending callbacks
CleanupTimers(t) == t

-----------------------------------------------------------------------------
(* History of a run  down(a), down(b), move(a|b)*, up(a|b), frame  that starts *)
(* with no pointer in the map and no callback pending.  Wheel events may be    *)
(* interleaved while both pointers are down.                                   *)

NoScen == [phase |-> "none", a |-> 0, b |-> 0, starts |-> 0, ends |-> 0,
           updated |-> FALSE, decided |-> FALSE, late |-> FALSE]

ScenStep(in, m, t, o, state) ==
    LET Counted(sc) == [sc EXCEPT !.starts = @ + Count(o, "pinch_start"),
                                  !.ends = @ + Count(o, "pinch_end"),
                                  !.updated = @ \/ Count(o, "pinch") > 0]
        counted == Counted(scen)
    IN  CASE in.op = "down" /\ m = << >> /\ t = << >> ->
                 [Counted(NoScen) EXCEPT !.phase = "one", !.a = in.id,
                                         !.late = Count(o, "pinch") > 0]
          [] in.op = "down" /\ scen.phase = "one" /\ in.id # scen.a /\ Len(m) = 1 ->
                 [counted EXCEPT !.phase = "two", !.b = in.id,
                                 !.late = Count(o, "pinch") > 0]
          [] in.op = "move" /\ scen.phase = "two" /\ in.id \in {scen.a, scen.b} ->
                 [counted EXCEPT !.decided = @ \/ state # "not sure",
                                 !.late = @ \/ (Count(o, "pinch") > 0 /\ scen.starts = 0)]
          [] in.op = "wheel" /\ scen.phase = "two" -> counted
          [] in.op = "up" /\ scen.phase = "two" /\ in.id \in {scen.a, scen.b} ->
                 [counted EXCEPT !.phase = "released",
                                 !.late = @ \/ Count(o, "pinch") > 0]
          [] in.op = "frame" /\ scen.phase = "released" ->
                 [counted EXCEPT !.phase = "done",
                                 !.late = @ \/ Count(o, "pinch") > 0]
          [] OTHER -> NoScen

-----------------------------------------------------------------------------
(* History: the mode has been 'zooming' since the pinch_start of the session   *)
(* the two tracked pointers are in                                            *)

Zoomed(m, o, state) ==
    IF Len(m) < 2 \/ Count(o, "pinch_start") > 0 THEN FALSE
    ELSE zoomed \/ state = "zooming"

\* history: what the pinch_start a pointerdown dispatched found, the zoom level the
\* event carries and the distance and midpoint of the two pointers then in the map
Begun(m, o) ==
    IF Count(o, "pinch_start") > 0
    THEN [zoom |-> o[1].z.n, dist |-> getPointerDistance(m[1], m[2]),
          at |-> getPointerCenter(m[1], m[2])]
    ELSE begun

-----------------------------------------------------------------------------
(* The state after the effect has run, lines 28-36 *)

Init ==
    /\ mounted = TRUE
    /\ lag = 0
    /\ activePointers = << >>
    /\ pinchState = "not sure"
    /\ initDistanceBetweenFingers = 1
    /\ initZoom = 1
    /\ currDistanceBetweenFingers = 0
    /\ initPointBetweenFingers = [x |-> 0, y |-> 0]
    /\ prevPointBetweenFingers = [x |-> 0, y |-> 0]
    /\ timers = << >>
    /\ out = << >>
    /\ prevented = FALSE
    /\ last = Input("init", 0, "-", "-")
    /\ zoomed = FALSE
    /\ scen = NoScen
    /\ begun = [zoom |-> 0, dist |-> 0, at |-> [x |-> 0, y |-> 0]]
    /\ stale = FALSE

\* lines 79-107; zoomLevel is what editor.getZoomLevel() returns
onPointerDown(id, pos, zoomLevel) ==
    LET m == MapSet(activePointers, id, pos)
        in == Input("down", id, "-", "-")
    IN  /\ Delivered
        /\ lag' = Lag(timers)
        /\ activePointers' = m
        /\ IF StartsPinch(m)
           THEN LET center == getPointerCenter(m[1], m[2])
                IN  /\ pinchState' = "not sure"
                    /\ prevPointBetweenFingers' = center
                    /\ initPointBetweenFingers' = center
                    /\ initDistanceBetweenFingers' = getPointerDistance(m[1], m[2])
                    /\ initZoom' = zoomLevel
                    /\ out' = << PinchEvent("pinch_start", center.x, center.y,
                                            RatInt(zoomLevel), 0, 0) >>
                    /\ UNCHANGED currDistanceBetweenFingers
           ELSE /\ out' = << >>
                /\ UNCHANGED session
        /\ prevented' = FALSE
        /\ last' = in
        /\ zoomed' = Zoomed(m, out', pinchState')
        /\ scen' = ScenStep(in, activePointers, timers, out', pinchState')
        /\ begun' = Begun(m, out')
        /\ stale' = (stale \/ (timers # << >> /\ Count(out', "pinch_start") > 0))
        /\ UNCHANGED << mounted, timers >>

\* lines 109-162; zoomSpeed is what editor.getCameraOptions().zoomSpeed returns
onPointerMove(id, pos, zoomSpeed) ==
    LET m == MapSet(activePointers, id, pos)
        in == Input("move", id, "-", "-")
    IN  /\ Delivered
        /\ lag' = Lag(timers)
        /\ IF ~MoveHandled(activePointers, id)
           THEN /\ out' = << >>
                /\ UNCHANGED << activePointers, session >>
           ELSE /\ activePointers' = m
                /\ IF MovePinches(m)
                   THEN LET center == getPointerCenter(m[1], m[2])
                            curr == getPointerDistance(m[1], m[2])
                            dx == center.x - prevPointBetweenFingers.x
                            dy == center.y - prevPointBetweenFingers.y
                            state == UpdatePinchState(pinchState, curr,
                                         initDistanceBetweenFingers,
                                         initPointBetweenFingers, center)
                        IN  /\ currDistanceBetweenFingers' = curr
                            /\ prevPointBetweenFingers' = center
                            /\ pinchState' = state
                            /\ out' = PinchUpdate(state, center, initZoom, curr,
                                                   initDistanceBetweenFingers, zoomSpeed,
                                                   dx, dy)
                            /\ UNCHANGED << initDistanceBetweenFingers, initZoom,
                                            initPointBetweenFingers >>
                   ELSE /\ out' = << >>
                        /\ UNCHANGED session
        /\ prevented' = FALSE
        /\ last' = in
        /\ zoomed' = Zoomed(IF MoveHandled(activePointers, id) THEN m ELSE activePointers,
                             out', pinchState')
        /\ scen' = ScenStep(in, activePointers, timers, out', pinchState')
        /\ begun' = IF MoveHandled(activePointers, id) /\ MovePinches(m)
                     THEN [begun EXCEPT !.at = getPointerCenter(m[1], m[2])]
                     ELSE begun
        /\ UNCHANGED << mounted, timers, stale >>

\* lines 164-189, the handler of pointerup and of pointercancel
onPointerUp(id, zoomSpeed) ==
    LET in == Input("up", id, "-", "-")
    IN  /\ Delivered
        /\ lag' = Lag(timers)
        /\ IF EndsPinch(activePointers, id)
           THEN /\ pinchState' = "not sure"
                /\ timers' = requestAnimationFrame(timers,
                       PinchEndCallback(Zoom(initZoom, currDistanceBetweenFingers,
                                             initDistanceBetweenFingers, zoomSpeed),
                                        prevPointBetweenFingers))
           ELSE UNCHANGED << pinchState, timers >>
        /\ activePointers' = MapDelete(activePointers, id)
        /\ out' = << >>
        /\ prevented' = FALSE
        /\ last' = in
        /\ zoomed' = Zoomed(MapDelete(activePointers, id), out', pinchState')
        /\ scen' = ScenStep(in, activePointers, timers, out', pinchState')
        /\ UNCHANGED << mounted, begun, stale, initDistanceBetweenFingers, initZoom,
                        currDistanceBetweenFingers, initPointBetweenFingers,
                        prevPointBetweenFingers >>

\* lines 192-230; env is what the editor reports (focus, editing shape, its bounds),
\* delta is what normalizeWheel(e) returns and point is (e.clientX, e.clientY)
onWheel(env, delta, point) ==
    LET in == Input("wheel", 0, IF env = "unfocused" THEN "unfocused"
                                ELSE IF WheelExempt(env) THEN "exempt" ELSE "handled",
                     pinchState)
    IN  /\ Delivered
        /\ lag' = Lag(timers)
        /\ IF ~WheelProcessed(env)
           THEN /\ UNCHANGED pinchState
                /\ out' = << >>
                /\ prevented' = FALSE
           ELSE /\ pinchState' = WheelResets(pinchState)
                /\ IF WheelExempt(env)
                   THEN /\ out' = << >>
                        /\ prevented' = FALSE
                   ELSE /\ prevented' = TRUE
                        /\ out' = IF WheelDropped(delta)
                                  THEN << >>
                                  ELSE << WheelEvent(delta, point) >>
        /\ last' = in
        /\ zoomed' = Zoomed(activePointers, out', pinchState')
        /\ scen' = ScenStep(in, activePointers, timers, out', pinchState')
        /\ UNCHANGED << mounted, begun, stale, activePointers, initDistanceBetweenFingers,
                        initZoom, currDistanceBetweenFingers, initPointBetweenFingers,
                        prevPointBetweenFingers, timers >>

\* the animation frame: every pending callback of lines 172-185 runs, in order
Frame ==
    LET in == Input("frame", 0, "-", "-")
    IN  /\ timers # << >>
        /\ out' = [i \in 1..Len(timers) |-> RunCallback(timers[i], prevPointBetweenFingers)]
        /\ timers' = << >>
        /\ prevented' = FALSE
        /\ last' = in
        /\ scen' = ScenStep(in, activePointers, timers, out', pinchState)
        /\ UNCHANGED zoomed
        /\ lag' = 0
        /\ stale' = FALSE
        /\ UNCHANGED << mounted, begun, activePointers, session >>

\* lines 239-245, the effect's cleanup: the five listeners are removed
Cleanup ==
    LET in == Input("cleanup", 0, "-", "-")
    IN  /\ mounted
        /\ mounted' = FALSE
        /\ timers' = CleanupTimers(timers)
        /\ out' = << >>
        /\ prevented' = FALSE
        /\ last' = in
        /\ scen' = NoScen
        /\ UNCHANGED << lag, zoomed, begun, stale, activePointers, session >>

PointerDown == \E id \in Fingers, z \in ZoomLevels : \E a \in XsOf(id) :
                   onPointerDown(id, Pos(a), z)
PointerMove == \E id \in Fingers, zs \in ZoomSpeeds : \E a \in XsOf(id) :
                   onPointerMove(id, Pos(a), zs)
PointerUp == \E id \in Fingers, zs \in ZoomSpeeds : onPointerUp(id, zs)

PointerDown3 == \E id \in PointerIds, z \in ZoomLevels : \E a \in Xs3Of(id) :
                    onPointerDown(id, Pos(a), z)
PointerMove3 == \E id \in PointerIds, zs \in ZoomSpeeds : \E a \in Xs3Of(id) :
                    onPointerMove(id, Pos(a), zs)
PointerUp3 == \E id \in PointerIds, zs \in ZoomSpeeds : onPointerUp(id, zs)
Wheel == \E env \in WheelEnvs, delta \in WheelDeltas, pos \in WheelPoints :
             onWheel(env, delta, pos)

Next == Wheel \/ PointerDown \/ PointerMove \/ PointerUp \/ Frame \/ Cleanup

Spec == Init /\ [][Next]_vars

\* the browser runs a requested animation frame
FairSpec == Spec /\ WF_vars(Frame)

Next3 == Wheel \/ PointerDown3 \/ PointerMove3 \/ PointerUp3 \/ Frame \/ Cleanup

Spec3 == Init /\ [][Next3]_vars

PointerDownZoom == \E id \in Fingers, z \in ZoomStartLevels : \E a \in ZoomXsOf(id) :
                       onPointerDown(id, Pos(a), z)
PointerMoveZoom == \E id \in Fingers, zs \in ZoomSpeeds : \E a \in ZoomXsOf(id) :
                       onPointerMove(id, Pos(a), zs)

WheelZoom == \E env \in WheelEnvs, delta \in WheelDeltas, pos \in ZoomWheelPoints :
                 onWheel(env, delta, pos)

NextZoom == WheelZoom \/ PointerDownZoom \/ PointerMoveZoom \/ PointerUp \/ Frame \/ Cleanup

SpecZoom == Init /\ [][NextZoom]_vars

-----------------------------------------------------------------------------
(* Properties *)

Tracked(id) == Has(activePointers, id)
Size == Len(activePointers)
PinchEnds(s) == Count(s, "pinch_end")
Place(m, id) == LET p == m[CHOOSE i \in 1..Len(m) : m[i].id = id] IN [x |-> p.x, y |-> p.y]

\* C1: in a run  down(a), down(b), moves of a and b, up(a or b), frame  exactly one
\* pinch_start is dispatched, by the pointerdown that makes two pointers; exactly one
\* pinch_end, by the frame after the release, which is pending until then; every
\* pinch update lies between them; and there is none while the mode was never decided.
C1_OneStartOneEnd ==
    /\ scen.phase = "one" => scen.starts = 0 /\ scen.ends = 0 /\ ~scen.updated
    /\ scen.phase = "two" => scen.starts = 1 /\ scen.ends = 0
    /\ scen.phase = "released" => scen.starts = 1 /\ scen.ends = 0 /\ Len(timers) = 1
    /\ scen.phase = "done" => scen.starts = 1 /\ scen.ends = 1 /\ timers = << >>
    /\ ~scen.late
    /\ (scen.phase # "none" /\ ~scen.decided) => ~scen.updated

C1_Witness == scen.phase = "done" /\ scen.updated /\ scen.starts = 1 /\ scen.ends = 1

C1_WitnessUndecided == scen.phase = "done" /\ ~scen.decided /\ ~scen.updated

\* C2 as claimed: once the mode of a session has been 'zooming', every later
\* pointermove of that session is handled in mode 'zooming', whatever happened between.
C2_ZoomingForSession ==
    [][(last'.op = "move" /\ Tracked(last'.id) /\ Size = 2 /\ zoomed)
           => pinchState' = "zooming"]_vars

\* C2 as amended: the mode leaves 'zooming' only when a wheel event is processed, when
\* a pointerup or pointercancel is handled with two pointers tracked, or when a
\* pointerdown starts a session; no pointermove and no animation frame changes it.
C2_ZoomingUntilReset ==
    [][pinchState = "zooming" =>
          \/ pinchState' = "zooming"
          \/ last'.op = "wheel" /\ last'.path # "unfocused"
          \/ last'.op = "up" /\ Size = 2
          \/ last'.op = "down" /\ Len(activePointers') = 2]_vars

C2_Witness ==
    /\ last.op = "move" /\ Size = 2 /\ zoomed /\ pinchState = "zooming"
    /\ Abs(currDistanceBetweenFingers - initDistanceBetweenFingers) <= 24

\* C3 as claimed: a pointerup or pointercancel for a pointer that is not tracked changes
\* neither the map, the session nor the pending callbacks, and dispatches nothing.
C3_UntrackedEndIsNoOp ==
    [][(last'.op = "up" /\ ~Tracked(last'.id))
           => (UNCHANGED << activePointers, session, timers >> /\ out' = << >>)]_vars

\* C4: on every handled pointermove with two pointers tracked, with touchSpread and
\* originDrift taken from the pointers' new places and the session's start: from
\* 'not sure' the mode stays 'not sure' when touchSpread <= 24 and originDrift <= 16,
\* becomes 'zooming' when touchSpread > 24, and 'panning' when touchSpread <= 24 and
\* originDrift > 16; from 'panning' it becomes 'zooming' when touchSpread > 64 and
\* stays 'panning' otherwise.
C4_Thresholds ==
    [][(last'.op = "move" /\ Tracked(last'.id) /\ Size = 2) =>
          LET p1 == activePointers'[1]
              p2 == activePointers'[2]
              touchSpread == Abs(getPointerDistance(p1, p2) - initDistanceBetweenFingers)
              originDrift == VecDist(initPointBetweenFingers, getPointerCenter(p1, p2))
          IN  /\ (pinchState = "not sure" /\ touchSpread <= 24 /\ originDrift <= 16)
                     => pinchState' = "not sure"
              /\ (pinchState = "not sure" /\ touchSpread > 24) => pinchState' = "zooming"
              /\ (pinchState = "not sure" /\ touchSpread <= 24 /\ originDrift > 16)
                     => pinchState' = "panning"
              /\ (pinchState = "panning" /\ touchSpread > 64) => pinchState' = "zooming"
              /\ (pinchState = "panning" /\ touchSpread <= 64) => pinchState' = "panning"]_vars

\* the mode is still 'panning' with the finger distance changed by exactly 64
C4_Witness ==
    /\ last.op = "move" /\ Size = 2 /\ pinchState = "panning"
    /\ Abs(currDistanceBetweenFingers - initDistanceBetweenFingers) = 64

\* C5 as claimed: once the effect's cleanup has run, no event is dispatched.
C5_NothingAfterCleanup == ~mounted => out = << >>

\* C6 as claimed: a pinch_end carries, as point and as delta, the midpoint the session
\* had when the release was handled.
C6_EndCarriesSessionCentroid ==
    [][last'.op = "frame" =>
          \A i \in 1..Len(timers) :
              /\ out'[i].x = timers[i].atRelease.x /\ out'[i].y = timers[i].atRelease.y
              /\ out'[i].dx = timers[i].atRelease.x /\ out'[i].dy = timers[i].atRelease.y]_vars

\* C7: the pointerup or pointercancel that takes the map from two pointers to fewer
\* dispatches nothing, resets the mode to 'not sure' and leaves one more callback
\* pending; the animation frame dispatches one pinch_end per pending callback; and a
\* pending callback leads to a frame that dispatches a pinch_end.
C7_DeferredEnd ==
    /\ [][(last'.op = "up" /\ Size = 2 /\ Len(activePointers') < 2) =>
             /\ out' = << >>
             /\ pinchState' = "not sure"
             /\ Len(timers') = Len(timers) + 1]_vars
    /\ [][last'.op = "frame" =>
             /\ PinchEnds(out') = Len(timers) /\ Len(out') = Len(timers)
             /\ timers' = << >>]_vars
    /\ (timers # << >>) ~> (last.op = "frame" /\ PinchEnds(out) > 0)

C7_Witness ==
    /\ last.op = "up" /\ Size = 1 /\ timers # << >> /\ lag = 0
    /\ pinchState = "not sure" /\ out = << >>

\* C8: a wheel event processed with two pointers tracked and the mode 'panning' or
\* 'zooming' sets the mode to 'not sure', dispatches no pinch_end, requests no
\* animation frame and leaves the map and the rest of the session as they were.
C8_WheelInterrupts ==
    [][(last'.op = "wheel" /\ last'.path # "unfocused" /\ Size = 2
          /\ pinchState \in {"panning", "zooming"}) =>
             /\ pinchState' = "not sure"
             /\ PinchEnds(out') = 0 /\ Count(out', "pinch") = 0
             /\ UNCHANGED << timers, activePointers, initDistanceBetweenFingers, initZoom,
                             currDistanceBetweenFingers, initPointBetweenFingers,
                             prevPointBetweenFingers >>]_vars

C8_Witness ==
    /\ last.op = "wheel" /\ last.path # "unfocused" /\ last.from = "panning"
    /\ Size = 2 /\ pinchState = "not sure" /\ timers = << >>

\* C9 as claimed: with focus on the canvas, a wheel event over a scrollable shape that
\* is being edited dispatches nothing and suppresses nothing; any other one dispatches
\* a wheel event and suppresses the default behaviour.
C9_ExemptOrDispatched ==
    [][last'.op = "wheel" =>
        \A env \in WheelEnvs \ {"unfocused"}, delta \in WheelDeltas, pt \in WheelPoints :
          onWheel(env, delta, pt) =>
              IF env = "inside"
              THEN out' = << >> /\ ~prevented'
              ELSE Count(out', "wheel") = 1 /\ prevented']_vars

\* C9 as amended: ... any other one suppresses the default behaviour, and dispatches
\* one wheel event unless its normalized delta is (0, 0), and then none.
C9_ExemptOrHandled ==
    [][last'.op = "wheel" =>
        \A env \in WheelEnvs \ {"unfocused"}, delta \in WheelDeltas, pt \in WheelPoints :
          onWheel(env, delta, pt) =>
              IF env = "inside"
              THEN out' = << >> /\ ~prevented'
              ELSE /\ prevented'
                   /\ out' = IF delta.x = 0 /\ delta.y = 0 THEN << >>
                             ELSE << WheelEvent(delta, pt) >>]_vars

C9_Witness == last.op = "wheel" /\ last.path = "exempt" /\ out = << >> /\ ~prevented

\* C10: a pointermove for a pointer that is not tracked changes neither the map, the
\* session nor the pending callbacks, and dispatches nothing.
C10_UntrackedMoveIsNoOp ==
    [][(last'.op = "move" /\ ~Tracked(last'.id))
           => (UNCHANGED << activePointers, session, timers >> /\ out' = << >>)]_vars

C10_Witness == last.op = "move" /\ ~Tracked(last.id) /\ Size = 2

\* C11 as claimed: a pointerdown dispatches a pinch_start, and writes the session, only
\* when it takes the map from fewer than two pointers to exactly two; a pointerdown for
\* a pointer that is already tracked does neither.  The pinch_start carries the
\* midpoint of the two pointers, the current zoom level and delta (0, 0).
C11_StartOnlyOnReachingTwo ==
    [][last'.op = "down" =>
          /\ (Count(out', "pinch_start") > 0 \/ session' # session)
                 => (Size < 2 /\ Len(activePointers') = 2)
          /\ Tracked(last'.id) => (out' = << >> /\ UNCHANGED session)
          /\ Count(out', "pinch_start") > 0 =>
                 LET c == getPointerCenter(activePointers'[1], activePointers'[2])
                 IN  /\ Len(out') = 1
                     /\ out'[1].x = c.x /\ out'[1].y = c.y
                     /\ out'[1].z = RatInt(initZoom')
                     /\ out'[1].dx = 0 /\ out'[1].dy = 0]_vars

\* C12: a pinch update dispatched in mode 'zooming' carries the zoom
\* z = initZoom * (currentDistance / initDistance) ^ zoomSpeed, with initZoom and
\* initDistance as the last pinch_start found them and currentDistance the distance
\* of the two pointers after the move; for initZoom 1, initDistance 100,
\* currentDistance 150 and zoomSpeed 1 it is 3/2.
C12_ZoomOfUpdate ==
    [][(last'.op = "move" /\ pinchState' = "zooming" /\ out' # << >>) =>
          \A zs \in ZoomSpeeds :
              onPointerMove(last'.id, Place(activePointers', last'.id), zs) =>
                  LET z == out'[1].z
                      cur == getPointerDistance(activePointers'[1], activePointers'[2])
                  IN  /\ begun.dist > 0 =>
                             /\ z.d > 0
                             /\ z.n * begun.dist ^ zs = z.d * begun.zoom * cur ^ zs
                      /\ begun.dist = 0 =>       \* IEEE: x / 0 is Infinity, 0 / 0 is NaN
                             z = [n |-> IF cur = 0 THEN 0 ELSE 1, d |-> 0]
                      /\ (begun.zoom = 1 /\ begun.dist = 100 /\ cur = 150 /\ zs = 1)
                             => z = [n |-> 3, d |-> 2]]_vars

C12_Witness ==
    /\ last.op = "move" /\ pinchState = "zooming" /\ Len(out) = 1
    /\ begun.zoom = 1 /\ begun.dist = 100
    /\ getPointerDistance(activePointers[1], activePointers[2]) = 150
    /\ out[1].z = [n |-> 3, d |-> 2]

\* C13 as claimed: once a pinch_start has been dispatched, no pinch_end requested before
\* it is dispatched: the animation frame dispatches no pinch_end of a session that
\* ended before the last pinch_start.
C13_NoStaleEnd ==
    [][(last'.op = "frame" /\ PinchEnds(out') > 0) => ~stale]_vars

\* C14 as claimed: the zoom a pinch_end carries is that session's
\* initZoom * (currentDistance / initDistance) ^ zoomSpeed, where currentDistance is the
\* distance of the session's two pointers when the release is handled; a session
\* released without a move carries its own initZoom.
C14_EndZoomOfSession ==
    [][(last'.op = "up" /\ Tracked(last'.id) /\ Size = 2) =>
          \A zs \in ZoomSpeeds :
              onPointerUp(last'.id, zs) =>
                  LET z == timers'[Len(timers')].finalZoom
                      cur == getPointerDistance(activePointers[1], activePointers[2])
                  IN  /\ z.d > 0
                      /\ z.n * begun.dist ^ zs = z.d * begun.zoom * cur ^ zs
                      /\ cur = begun.dist => z = RatInt(begun.zoom)]_vars

\* C15: a pinch update dispatched with the mode 'panning' after the classification
\* carries the zoom level the session's pinch_start found, whatever the distance of the
\* pointers is now, and as delta the new midpoint minus the midpoint of the previous
\* two-pointer move or, before any, of the pinch_start.
C15_PanningKeepsZoom ==
    [][(last'.op = "move" /\ pinchState' = "panning" /\ out' # << >>) =>
          LET c == getPointerCenter(activePointers'[1], activePointers'[2])
          IN  /\ out'[1].z = RatInt(begun.zoom)
              /\ out'[1].dx = c.x - begun.at.x /\ out'[1].dy = c.y - begun.at.y
              /\ out'[1].x = c.x /\ out'[1].y = c.y]_vars

\* a panning update with the fingers further apart than at the start
C15_Witness ==
    /\ last.op = "move" /\ pinchState = "panning" /\ Len(out) = 1
    /\ getPointerDistance(activePointers[1], activePointers[2]) # begun.dist
    /\ out[1].z = RatInt(begun.zoom) /\ out[1].dx # 0

\* C16: a pointermove of a tracked pointer with two pointers tracked dispatches exactly
\* one pinch update when the mode after the classification is 'zooming' or 'panning'
\* and nothing when it is 'not sure'; in every case prevPointBetweenFingers and
\* currDistanceBetweenFingers become the midpoint and distance of the pointers' new
\* places.
C16_UpdateByMode ==
    [][(last'.op = "move" /\ Tracked(last'.id) /\ Size = 2) =>
          LET p1 == activePointers'[1]
              p2 == activePointers'[2]
          IN  /\ pinchState' \in {"zooming", "panning"}
                     => (Len(out') = 1 /\ Count(out', "pinch") = 1)
              /\ pinchState' = "not sure" => out' = << >>
              /\ prevPointBetweenFingers' = getPointerCenter(p1, p2)
              /\ currDistanceBetweenFingers' = getPointerDistance(p1, p2)]_vars

\* an undecided move that dispatched nothing and moved midpoint and distance
C16_Witness ==
    /\ last.op = "move" /\ Tracked(last.id) /\ Size = 2
    /\ pinchState = "not sure" /\ out = << >>
    /\ prevPointBetweenFingers # initPointBetweenFingers
    /\ currDistanceBetweenFingers # initDistanceBetweenFingers
    /\ prevPointBetweenFingers = getPointerCenter(activePointers[1], activePointers[2])

\* C17: a pointermove leaves the mode as it is or takes it from 'not sure' to
\* 'zooming', from 'not sure' to 'panning' or from 'panning' to 'zooming'; it never
\* takes it from 'panning' to 'not sure' nor away from 'zooming'.
C17_MoveTransitions ==
    [][last'.op = "move" =>
          \/ pinchState' = pinchState
          \/ << pinchState, pinchState' >> \in
                 { << "not sure", "zooming" >>, << "not sure", "panning" >>,
                   << "panning", "zooming" >> }]_vars

\* the mode is still 'panning' after a move that brought the midpoint back within 16
\* of where the session started
C17_Witness ==
    /\ last.op = "move" /\ Tracked(last.id) /\ Size = 2 /\ pinchState = "panning"
    /\ VecDist(initPointBetweenFingers, prevPointBetweenFingers) <= 16
    /\ prevPointBetweenFingers = getPointerCenter(activePointers[1], activePointers[2])

\* C18: with a number of pointers tracked other than two, a pointermove dispatches
\* nothing, requests no frame and leaves the session as it is; it changes at most the
\* place of the pointer that moved.  A pointerup or pointercancel that takes the map
\* from three pointers to two dispatches nothing, requests no frame (no pinch_end) and
\* leaves the session as it is (no pinch_start).
C18_OnlyAtTwo ==
    /\ [][(last'.op = "move" /\ Size # 2) =>
             /\ out' = << >>
             /\ UNCHANGED << session, timers >>
             /\ Len(activePointers') = Size
             /\ \A i \in 1..Size :
                    \/ activePointers'[i] = activePointers[i]
                    \/ activePointers[i].id = last'.id /\ activePointers'[i].id = last'.id]_vars
    /\ [][(last'.op = "up" /\ Size = 3 /\ Len(activePointers') = 2) =>
             /\ out' = << >>
             /\ UNCHANGED << session, timers >>]_vars

\* three pointers tracked, one of the first two moved: the midpoint of the session is
\* not the midpoint of their places
C18_Witness ==
    /\ last.op = "move" /\ Size = 3 /\ Tracked(last.id) /\ out = << >>
    /\ prevPointBetweenFingers # getPointerCenter(activePointers[1], activePointers[2])

\* a release took the map from three pointers to two and requested nothing
C18_WitnessRelease ==
    /\ last.op = "up" /\ Size = 2 /\ ~Tracked(last.id) /\ timers = << >> /\ lag = 0

\* C19: a wheel event that arrives while the editor is not focused dispatches nothing,
\* suppresses neither default behaviour nor propagation, and leaves the mode, the rest
\* of the session, the map and the pending callbacks as they were.
C19_UnfocusedWheelIgnored ==
    [][(last'.op = "wheel" /\ last'.path = "unfocused") =>
          /\ out' = << >>
          /\ ~prevented'
          /\ UNCHANGED << session, activePointers, timers >>]_vars

\* an unfocused wheel event found a session zooming or panning and left it so
C19_Witness ==
    /\ last.op = "wheel" /\ last.path = "unfocused" /\ Size = 2
    /\ last.from \in {"zooming", "panning"} /\ pinchState = last.from
    /\ out = << >> /\ ~prevented

\* C20: no wheel event with delta (0, 0) is ever dispatched.  A wheel event that is
\* processed and not left to a scrollable shape dispatches nothing when its normalized
\* delta is zero on both axes, and otherwise exactly one wheel event, which carries
\* that delta and the event's client position.
C20_ZeroDeltaDropped ==
    /\ [](\A i \in 1..Len(out) :
              out[i].name = "wheel" => (out[i].delta.x # 0 \/ out[i].delta.y # 0))
    /\ [][(last'.op = "wheel" /\ last'.path = "handled") =>
             \A delta \in WheelDeltas, pt \in ZoomWheelPoints :
                 (\E env \in WheelEnvs : onWheel(env, delta, pt)) =>
                     IF delta.x = 0 /\ delta.y = 0
                     THEN out' = << >>
                     ELSE /\ Len(out') = 1 /\ out'[1].name = "wheel"
                          /\ out'[1].delta = delta /\ out'[1].point = pt]_vars

\* a wheel event that is zero on one axis only was dispatched
C20_Witness ==
    /\ last.op = "wheel" /\ last.path = "handled" /\ Len(out) = 1
    /\ out[1].name = "wheel" /\ out[1].delta.x = 0 /\ out[1].delta.y # 0

\* a processed wheel event with delta (0, 0) dispatched nothing
C20_WitnessDropped ==
    last.op = "wheel" /\ last.path = "handled" /\ prevented /\ out = << >>

====
